---- MODULE Spec2Model ----
(***************************************************************************)
(* Ingestion and retrieval pipeline of the RAG backend.                    *)
(*                                                                         *)
(* The repository holds three iterations of the upload controller:         *)
(*   "sequential"  controllers/uploadController.js : one try/catch around  *)
(*                 the whole request, files handled one after another;     *)
(*   "isolating"   unnamed/part_004 : files one after another, each in its *)
(*                 own try/catch/finally;                                  *)
(*   "parallel"    unnamed/part_003 (second half) : one task per file      *)
(*                 under Promise.all, a process-wide embedding model and a *)
(*                 process-wide slot counter.                              *)
(* Node runs one callback at a time, so an action is the code between two  *)
(* awaits on I/O or on a timer.                                            *)
(***************************************************************************)
EXTENDS Integers, Sequences, FiniteSets, TLC

\* ---- program constants
BATCH_SIZE == 100
MAX_CONCURRENT_EMBEDDINGS == 3
MinWords == 5                  \* chunk.wordCount < 5
MaxPunctuationPerMille == 300  \* chunk.quality.punctuationRatio > 0.3

\* ---- bounds of the model
MaxDocs == 4        \* files that can be in the process at once
MaxFiles == 2       \* files of the requests of a cold start (Init)
MaxRequests == 2    \* concurrent upload requests
MaxChunks == 1      \* chunks of one file
MaxVectors == 250   \* vectors of one file when the upload is examined
MaxStored == 4      \* records in the index when it is searched
MaxResults == 2     \* largest maxResults / topK of a retrieval request
MaxScore == 2       \* similarity scores are 1..MaxScore
MaxTextLen == 4     \* characters of a text handed to createTextChunks
MaxChunkSize == 3   \* largest chunkSize
MaxPieces == 3      \* pieces the text splitter cuts a text into
MaxEmbedChunks == 3 \* chunks of one file when the embedding loop is examined

Docs == 1..MaxDocs
Requests == 1..MaxRequests
\* the chunk counts the chunker is taken to produce: an empty text, a full one
ChunkCounts == {0, MaxChunks}
\* the model instance of a process that has served uploads before
PreloadedInstance == MaxRequests + 1
Tenants == {"A", "B"}
Pipelines == {"sequential", "isolating", "parallel"}

VARIABLES
  pipeline,                \* which upload controller is mounted
  owner,                   \* owner[d]: the request that file d belongs to (req.files),
                           \* 0 for a file slot that no request uses
  user,                    \* user[r]: userId of request r
  indexState,              \* the Pinecone index: "absent", "initializing", "ready"
  globalEmbeddingPipeline, \* 0 is null, otherwise the instance (named by its loader)
  embeddingSemaphore,      \* the slot counter
  rpc,                     \* rpc[r]: where request r is
  resp,                    \* resp[r]: 0 not answered, else the HTTP status sent
  results,                 \* results[r]: the results array of the request
  dpc,                     \* dpc[d]: where file d is
  nChunks,                 \* nChunks[d]: textChunks.length
  chunkIndex,              \* chunkIndex[d]: loop variable of the embedding loop
  embeddingVectors,        \* embeddingVectors[d]: embeddingVectors.length
  batchIndex,              \* batchIndex[d]: loop variable of the upload loop
  sent,                    \* sent[d]: the upsert batches issued for d, in order
  tmp,                     \* tmp[d]: the temp file of d exists
  store,                   \* records in the index
  query,                   \* the retrieval request: its inputs, position, locals
                           \* and response
  chunking,                \* one call of a chunker: its arguments and its result
  timedOut,                \* timedOut[d]: the caller has stopped waiting for file d
  building,                \* one record of vectorsToUpload: the chunk it is built
                           \* from and its metadata
  gate,                    \* one request to the query route: its header, its
                           \* staged files, what protect and sendPrompt did
  signing                  \* signing[a]: one call of signUser, its body and its
                           \* response

vars == <<pipeline, owner, user, indexState, globalEmbeddingPipeline,
          embeddingSemaphore, rpc, resp, results, dpc,
          nChunks, chunkIndex, batchIndex, sent, tmp, store, query,
          chunking, embeddingVectors, timedOut, building, gate,
          signing>>

reqVars == <<rpc, resp, results>>
docVars == <<dpc, nChunks, chunkIndex, embeddingVectors, batchIndex, sent, tmp>>
\* what no upload handler writes
envVars == <<pipeline, owner, user, query, chunking, timedOut, building, gate,
            signing>>

\* ---- helpers
Min(a, b) == IF a < b THEN a ELSE b

DocsOf(r) == {d \in Docs : owner[d] = r}

\* the file after d in req.files of the same request, 0 when d is the last
NextDoc(d) ==
  LET later == {e \in Docs : owner[e] = owner[d] /\ e > d}
  IN IF later = {} THEN 0 ELSE CHOOSE e \in later : \A f \in later : e <= f

FirstDoc(r) ==
  IF DocsOf(r) = {} THEN 0 ELSE CHOOSE e \in DocsOf(r) : \A f \in DocsOf(r) : e <= f

\* PINECONE_INDEX_NAME of the upload controller
IndexName ==
  CASE pipeline = "sequential" -> "georag"
    [] pipeline = "isolating"  -> "vectormind"
    [] pipeline = "parallel"   -> "georag1"

\* PINECONE_INDEX_NAME of the retrieval controllers
QueryIndexName == "georag1"

\* vectorsToUpload of file d: one record per chunk, in chunk order; index is
\* the index of the account that the record is written to
Record(d, i) == [id |-> <<d, i>>, userId |-> user[owner[d]], index |-> IndexName]
VectorsToUpload(d) == [i \in 1..nChunks[d] |-> Record(d, i)]

\* vectorsToUpload.slice(batchIndex, batchIndex + BATCH_SIZE)
Slice(s, from, to) == SubSeq(s, from + 1, Min(to, Len(s)))

\* faulty variant of the batch: one record more than the step of the loop
CurrentBatchTooLong(d, b) == Slice(VectorsToUpload(d), b, b + BATCH_SIZE + 1)

\* currentBatch of the upload loop, for the loop variable b
CurrentBatch(d, b) == Slice(VectorsToUpload(d), b, b + BATCH_SIZE)

Range(s) == {s[k] : k \in 1..Len(s)}

\* faulty variant of the entry: the batches are counted, not the vectors
SuccessEntryCountsBatches(d) ==
  [doc |-> d, status |-> "success", chunksCreated |-> nChunks[d],
   vectorsUploaded |-> Len(sent[d])]

SuccessEntry(d) ==
  [doc |-> d, status |-> "success", chunksCreated |-> nChunks[d],
   vectorsUploaded |-> embeddingVectors[d]]
ErrorEntry(d) == [doc |-> d, status |-> "error"]

\* faulty variant of the cleanup: the temp files are left behind
CleanupNone(r) == tmp

\* req.files.forEach(file => if exists unlink)
CleanupAll(r) == [d \in Docs |-> IF owner[d] = r THEN FALSE ELSE tmp[d]]

\* where a file's processing threw
FailedStates == {"failedParse", "failedLoad", "failedEmbed", "failedUpsert", "failedUnlink"}
Failed(d) == dpc[d] \in FailedStates
Finished(d) == dpc[d] = "ok" \/ Failed(d)
Active(d) == dpc[d] \in {"parse", "load", "wait", "embed", "upsert"}

TypeOK ==
  /\ pipeline \in Pipelines
  /\ owner \in [Docs -> 0..MaxRequests]
  /\ user \in [Requests -> Tenants]
  /\ indexState \in {"absent", "initializing", "ready"}
  /\ globalEmbeddingPipeline \in 0..PreloadedInstance
  /\ embeddingSemaphore \in Int
  /\ rpc \in [Requests -> {"list", "create", "sleep", "load", "files", "done"}]
  /\ resp \in [Requests -> {0, 200, 500}]
  /\ dpc \in [Docs -> {"queued", "parse", "load", "wait", "embed", "upsert", "ok"}
                        \cup FailedStates]
  /\ nChunks \in [Docs -> Nat]
  /\ tmp \in [Docs -> BOOLEAN]
  /\ timedOut \in [Docs -> BOOLEAN]

\* req.files of the requests: the first n file slots, dealt to the requests in order
Assignments(n) ==
  {o \in [Docs -> 0..MaxRequests] :
     /\ \A d \in Docs : (o[d] = 0) <=> (d > n)
     /\ \A d, e \in Docs : (d <= e /\ e <= n) => o[d] <= o[e]}

\* no retrieval request in this run
NoQuery ==
  [pc |-> "idle", handler |-> "sendPrompt", text |-> "words",
   userId |-> "A", maxResults |-> 1,
   includeMetadata |-> TRUE, searched |-> FALSE, matches |-> <<>>,
   rest |-> <<>>, scores |-> <<>>,
   chunks |-> <<>>, context |-> <<>>, prompt |-> <<>>, gptCalls |-> 0,
   status |-> 0, success |-> FALSE, answer |-> "none", sources |-> <<>>,
   body |-> {}, metadata |-> [chunksFound |-> 0, maxSimilarity |-> 0]]

\* no chunker call under examination in this run
NoChunking ==
  [pc |-> "idle", chunker |-> "fixed", text |-> <<>>, chunkSize |-> 1,
   documents |-> <<>>, textChunks |-> <<>>, threw |-> FALSE,
   vectors |-> <<>>]

\* no record under examination in this run
NoBuilding ==
  [pc |-> "idle", userId |-> "A", langChainMetadata |-> <<>>, metadata |-> <<>>]

MaxStaged == 2    \* files in one request to the query route
MaxAttempts == 2  \* sign-in attempts examined side by side

\* no request to the query route in this run
NoGate ==
  [pc |-> "idle", authorization |-> <<>>, lookup |-> "found", files |-> 0,
   body |-> "question", staged |-> 0, nextCalls |-> 0, sent |-> <<>>,
   user |-> FALSE, ran |-> FALSE, status |-> 0, message |-> ""]

\* no sign-in in this run
NoSigning ==
  [a \in 1..MaxAttempts |->
     [pc |-> "idle", email |-> "", password |-> "", dbFails |-> FALSE,
      status |-> 0, body |-> "", token |-> FALSE, cookie |-> FALSE]]

\* no caller has given up
NoTimeout == timedOut = [d \in Docs |-> FALSE]

QueryIdle == query = NoQuery /\ chunking = NoChunking

\* nothing has run yet
Idle ==
  /\ user = [r \in Requests |-> IF r = 1 THEN "A" ELSE "B"]
  /\ embeddingSemaphore = 0
  /\ rpc = [r \in Requests |-> "list"]
  /\ resp = [r \in Requests |-> 0]
  /\ QueryIdle
  /\ NoTimeout
  /\ building = NoBuilding
  /\ gate = NoGate
  /\ signing = NoSigning
  /\ results = [r \in Requests |-> <<>>]
  /\ dpc = [d \in Docs |-> "queued"]
  /\ nChunks = [d \in Docs |-> 0]
  /\ chunkIndex = [d \in Docs |-> 0]
  /\ embeddingVectors = [d \in Docs |-> 0]
  /\ batchIndex = [d \in Docs |-> 0]
  /\ sent = [d \in Docs |-> <<>>]
  /\ tmp = [d \in Docs |-> owner[d] # 0]
  /\ store = {}

\* a fresh process: the requests arrive together, the index may not exist yet
Init ==
  /\ pipeline \in Pipelines
  /\ owner \in Assignments(MaxFiles)
  /\ indexState \in {"absent", "ready"}
  /\ globalEmbeddingPipeline = 0
  /\ Idle

\* ---- what a handler does when it leaves an await; each of these fixes
\* ---- rpc, resp, results, dpc and tmp; DocSucceeds and DocFails also drop
\* ---- the locals of the file (nChunks, chunkIndex, batchIndex)

OrderedDocs(r) ==
  LET S == DocsOf(r)
  IN [k \in 1..Cardinality(S) |-> CHOOSE d \in S : Cardinality({e \in S : e < d}) = k - 1]

\* faulty variant of the catch block: the failure is answered and the files
\* of the request are processed all the same
RequestCatchThenFiles(r, dp) ==
  /\ tmp' = CleanupAll(r)
  /\ resp' = [resp EXCEPT ![r] = 500]
  /\ rpc' = [rpc EXCEPT ![r] = "done"]
  /\ dpc' = [d \in Docs |-> IF owner[d] = r /\ dp[d] = "queued" THEN "parse" ELSE dp[d]]
  /\ UNCHANGED results

\* the catch block of uploadFiles: remove every temp file of the request, answer 500
RequestCatch(r, dp) ==
  /\ tmp' = CleanupAll(r)
  /\ resp' = [resp EXCEPT ![r] = 500]
  /\ rpc' = [rpc EXCEPT ![r] = "done"]
  /\ dpc' = dp
  /\ UNCHANGED results

\* the loop over req.files (sequential, isolating) or req.files.map (parallel)
StartFiles(r) ==
  /\ UNCHANGED <<tmp, results>>
  /\ IF DocsOf(r) = {}
       THEN /\ resp' = [resp EXCEPT ![r] = 200]
            /\ rpc' = [rpc EXCEPT ![r] = "done"]
            /\ UNCHANGED dpc
       ELSE /\ rpc' = [rpc EXCEPT ![r] = "files"]
            /\ UNCHANGED resp
            /\ dpc' = IF pipeline = "parallel"
                        THEN [d \in Docs |-> IF owner[d] = r THEN "parse" ELSE dpc[d]]
                        ELSE [dpc EXCEPT ![FirstDoc(r)] = "parse"]

\* the end of one iteration of the file loop: the next file is read and parsed,
\* or the request is answered 200
Advance(d, st) ==
  LET r == owner[d]
      nx == NextDoc(d)
  IN IF nx = 0
       THEN /\ dpc' = [dpc EXCEPT ![d] = st]
            /\ resp' = [resp EXCEPT ![r] = 200]
            /\ rpc' = [rpc EXCEPT ![r] = "done"]
       ELSE /\ dpc' = [dpc EXCEPT ![d] = st, ![nx] = "parse"]
            /\ UNCHANGED <<resp, rpc>>

\* a file went through parse, chunk, embed and upload
DocSucceeds(d) ==
  LET r == owner[d]
  IN /\ chunkIndex' = [chunkIndex EXCEPT ![d] = 0]
     /\ batchIndex' = [batchIndex EXCEPT ![d] = 0]
     /\ UNCHANGED nChunks
     /\ IF pipeline = "parallel"
       THEN IF tmp[d]
              THEN /\ tmp' = [tmp EXCEPT ![d] = FALSE]
                   /\ dpc' = [dpc EXCEPT ![d] = "ok"]
                   /\ IF resp[r] = 0 /\ \A e \in DocsOf(r) \ {d} : dpc[e] = "ok"
                        THEN /\ resp' = [resp EXCEPT ![r] = 200]
                             /\ rpc' = [rpc EXCEPT ![r] = "done"]
                             /\ results' = [results EXCEPT ![r] =
                                   [k \in 1..Cardinality(DocsOf(r)) |->
                                      SuccessEntry(OrderedDocs(r)[k])]]
                        ELSE UNCHANGED <<resp, rpc, results>>
              \* unlinkSync throws: the request's catch block removed the file
              ELSE /\ dpc' = [dpc EXCEPT ![d] = "failedUnlink"]
                   /\ UNCHANGED <<tmp, resp, rpc, results>>
       ELSE /\ results' = [results EXCEPT ![r] = Append(@, SuccessEntry(d))]
            /\ tmp' = [tmp EXCEPT ![d] = FALSE]
            /\ Advance(d, "ok")

\* an await of the file's processing threw; st names the stage
DocFails(d, st) ==
  LET r == owner[d]
  IN /\ chunkIndex' = [chunkIndex EXCEPT ![d] = 0]
     /\ batchIndex' = [batchIndex EXCEPT ![d] = 0]
     /\ nChunks' = [nChunks EXCEPT ![d] = 0]
     /\ CASE pipeline = "sequential" ->
            RequestCatch(r, [dpc EXCEPT ![d] = st])
       [] pipeline = "isolating" ->
            /\ results' = [results EXCEPT ![r] = Append(@, ErrorEntry(d))]
            /\ tmp' = [tmp EXCEPT ![d] = FALSE]
            /\ Advance(d, st)
       [] pipeline = "parallel" ->
            IF resp[r] = 0
              THEN RequestCatch(r, [dpc EXCEPT ![d] = st])
              ELSE /\ tmp' = [tmp EXCEPT ![d] = FALSE]
                   /\ dpc' = [dpc EXCEPT ![d] = st]
                   /\ UNCHANGED <<resp, rpc, results>>

\* faulty variant of the step after the index setup: the files are started
\* without the model
AfterEnsureSkipsLoad(r) == StartFiles(r)

\* initializeGlobalEmbeddingModel, up to its await (parallel); the other
\* controllers go straight to the files
AfterEnsure(r) ==
  IF pipeline = "parallel" /\ globalEmbeddingPipeline = 0
    THEN /\ rpc' = [rpc EXCEPT ![r] = "load"]
         /\ UNCHANGED <<resp, results, dpc, tmp>>
    ELSE StartFiles(r)

\* ---- ensurePineconeIndexExists

\* listIndexes returns (or throws)
ListIndexes(r, ok) ==
  /\ rpc[r] = "list"
  /\ UNCHANGED <<envVars, embeddingVectors, indexState, globalEmbeddingPipeline, embeddingSemaphore,
                 nChunks, chunkIndex, batchIndex, sent, store>>
  /\ IF ~ok
       THEN RequestCatch(r, dpc)
       ELSE IF indexState = "absent"
              THEN /\ rpc' = [rpc EXCEPT ![r] = "create"]
                   /\ UNCHANGED <<resp, results, dpc, tmp>>
              ELSE AfterEnsure(r)

\* createIndex returns; the store refuses a name that exists
CreateIndexReturns(r, ok) ==
  /\ rpc[r] = "create"
  /\ ok => indexState = "absent"
  /\ UNCHANGED <<envVars, embeddingVectors, globalEmbeddingPipeline,
                 embeddingSemaphore, nChunks, chunkIndex, batchIndex, sent, store>>
  /\ IF ok
       THEN /\ indexState' = "initializing"
            /\ rpc' = [rpc EXCEPT ![r] = "sleep"]
            /\ UNCHANGED <<resp, results, dpc, tmp>>
       ELSE RequestCatch(r, dpc) /\ UNCHANGED indexState

\* the 10 s timer fires
SleepDone(r) ==
  /\ rpc[r] = "sleep"
  /\ AfterEnsure(r)
  /\ UNCHANGED <<envVars, embeddingVectors, indexState, globalEmbeddingPipeline,
                 embeddingSemaphore, nChunks, chunkIndex, batchIndex, sent, store>>

\* the store finishes building the index
IndexReady ==
  /\ indexState = "initializing"
  /\ indexState' = "ready"
  /\ UNCHANGED <<envVars, globalEmbeddingPipeline,
                 embeddingSemaphore, reqVars, docVars, store>>

\* pipeline(...) of initializeGlobalEmbeddingModel returns
ModelLoaded(r, ok) ==
  /\ rpc[r] = "load"
  /\ UNCHANGED <<envVars, embeddingVectors, indexState, embeddingSemaphore,
                 nChunks, chunkIndex, batchIndex, sent, store>>
  /\ IF ok
       THEN /\ globalEmbeddingPipeline' = r
            /\ StartFiles(r)
       ELSE RequestCatch(r, dpc) /\ UNCHANGED globalEmbeddingPipeline

\* ---- one file: parse, chunk, embed, upload

\* faulty variant of the slot test: one task too many is let in
SlotFreeOffByOne == embeddingSemaphore <= MAX_CONCURRENT_EMBEDDINGS

\* faulty variant of the slot test: the loop never sees a free slot
SlotNeverFree == FALSE

\* waitForEmbeddingSlot: the test of the while loop and the increment run in
\* one callback
SlotFree == embeddingSemaphore < MAX_CONCURRENT_EMBEDDINGS

\* uploadChunksToPinecone up to its first await: the first batch is sent, or
\* there is nothing to send and the file is done
StartUpload(d) ==
  IF nChunks[d] > 0
    THEN /\ sent' = [sent EXCEPT ![d] = <<CurrentBatch(d, 0)>>]
         /\ batchIndex' = [batchIndex EXCEPT ![d] = 0]
         /\ chunkIndex' = [chunkIndex EXCEPT ![d] = 0]
         /\ dpc' = [dpc EXCEPT ![d] = "upsert"]
         /\ UNCHANGED <<rpc, resp, results, tmp, nChunks>>
    ELSE DocSucceeds(d) /\ UNCHANGED sent

\* pdfParse returns; the text is cleaned and chunked into n chunks
ParseReturns(d, ok, n) ==
  /\ dpc[d] = "parse"
  /\ UNCHANGED <<envVars, embeddingVectors, indexState, globalEmbeddingPipeline, sent, store>>
  /\ IF ~ok \/ (pipeline = "isolating" /\ n = 0)
       THEN DocFails(d, "failedParse") /\ UNCHANGED embeddingSemaphore
       ELSE /\ nChunks' = [nChunks EXCEPT ![d] = n]
            /\ UNCHANGED <<rpc, resp, results, tmp, chunkIndex, batchIndex>>
            /\ IF pipeline = "parallel"
                 THEN IF SlotFree
                        THEN /\ embeddingSemaphore' = embeddingSemaphore + 1
                             /\ dpc' = [dpc EXCEPT ![d] = "embed"]
                        ELSE /\ dpc' = [dpc EXCEPT ![d] = "wait"]
                             /\ UNCHANGED embeddingSemaphore
                 ELSE /\ dpc' = [dpc EXCEPT ![d] = "load"]
                      /\ UNCHANGED embeddingSemaphore

\* the 100 ms timer of waitForEmbeddingSlot fires and a slot is free
WaitWake(d) ==
  /\ dpc[d] = "wait"
  /\ SlotFree
  /\ embeddingSemaphore' = embeddingSemaphore + 1
  /\ dpc' = [dpc EXCEPT ![d] = "embed"]
  /\ UNCHANGED <<envVars, embeddingVectors, indexState, globalEmbeddingPipeline, reqVars, nChunks, chunkIndex, batchIndex, sent, tmp, store>>

\* pipeline(...) of generateEmbeddingsForChunks returns (sequential, isolating)
LoadReturns(d, ok) ==
  /\ dpc[d] = "load"
  /\ UNCHANGED <<envVars, embeddingVectors, indexState, globalEmbeddingPipeline, embeddingSemaphore, store>>
  /\ IF ~ok
       THEN DocFails(d, "failedLoad") /\ UNCHANGED sent
       ELSE IF nChunks[d] > 0
              THEN /\ dpc' = [dpc EXCEPT ![d] = "embed"]
                   /\ UNCHANGED <<rpc, resp, results, tmp, nChunks, chunkIndex,
                                  batchIndex, sent>>
              ELSE StartUpload(d)

\* faulty variant of the release: the slot is kept
ReleaseSlotSkipped == embeddingSemaphore' = embeddingSemaphore

\* releaseEmbeddingSlot in the finally of generateEmbeddingsForChunks
ReleaseSlot ==
  embeddingSemaphore' =
    IF pipeline = "parallel" THEN embeddingSemaphore - 1 ELSE embeddingSemaphore

\* faulty variant of a failed model call: the chunk is left out and the loop
\* goes on with the next one
EmbedFailedSkipsChunk(d) ==
  /\ UNCHANGED embeddingVectors
  /\ IF chunkIndex[d] + 1 < nChunks[d]
       THEN /\ chunkIndex' = [chunkIndex EXCEPT ![d] = @ + 1]
            /\ UNCHANGED <<embeddingSemaphore, reqVars, dpc, tmp, nChunks,
                           batchIndex, sent>>
       ELSE ReleaseSlot /\ StartUpload(d)

\* the model call threw: the error leaves generateEmbeddingsForChunks at
\* once (through the finally) and the vectors collected so far are dropped
EmbedFailed(d) ==
  /\ embeddingVectors' = [embeddingVectors EXCEPT ![d] = 0]
  /\ ReleaseSlot
  /\ DocFails(d, "failedEmbed")
  /\ UNCHANGED sent

\* faulty variant of the loop test: the loop is left after the first call
MoreChunksNever(d) == FALSE

\* chunkIndex++ ; chunkIndex < totalChunks
MoreChunks(d) == chunkIndex[d] + 1 < nChunks[d]

\* the model call for chunk chunkIndex[d] returns (or throws)
EmbedReturns(d, ok) ==
  /\ dpc[d] = "embed"
  /\ chunkIndex[d] < nChunks[d]
  /\ UNCHANGED <<envVars, indexState, globalEmbeddingPipeline, store>>
  /\ IF ~ok
       THEN EmbedFailed(d)
       ELSE /\ embeddingVectors' = [embeddingVectors EXCEPT ![d] = @ + 1]
            /\ IF MoreChunks(d)
              THEN /\ chunkIndex' = [chunkIndex EXCEPT ![d] = @ + 1]
                   /\ UNCHANGED <<embeddingSemaphore, reqVars, dpc, tmp, nChunks,
                                  batchIndex, sent>>
              ELSE ReleaseSlot /\ StartUpload(d)

\* the embedding loop of a file without chunks: the slot is released at once
EmbedNothing(d) ==
  /\ dpc[d] = "embed"
  /\ nChunks[d] = 0
  /\ ReleaseSlot
  /\ StartUpload(d)
  /\ UNCHANGED <<envVars, embeddingVectors, indexState, globalEmbeddingPipeline, store>>

\* faulty variant of the catch of the upload loop: the failed batch is
\* skipped and the loop goes on with the next one
UpsertFailedSkipsBatch(d) ==
  /\ store' = store
  /\ IF batchIndex[d] + BATCH_SIZE < nChunks[d]
       THEN /\ batchIndex' = [batchIndex EXCEPT ![d] = @ + BATCH_SIZE]
            /\ sent' = [sent EXCEPT ![d] =
                          Append(@, CurrentBatch(d, batchIndex[d] + BATCH_SIZE))]
            /\ UNCHANGED <<reqVars, dpc, tmp, nChunks, chunkIndex>>
       ELSE DocFails(d, "failedUpsert") /\ UNCHANGED sent

\* the catch of the upload loop: the error is thrown again, no batch follows
UpsertFailed(d) == DocFails(d, "failedUpsert") /\ UNCHANGED <<store, sent>>

\* the upsert of the batch at batchIndex[d] returns (or throws); the store
\* serves no index that is not ready
UpsertReturns(d, ok) ==
  /\ dpc[d] = "upsert"
  /\ ok => indexState = "ready"
  /\ UNCHANGED <<envVars, embeddingVectors, indexState, globalEmbeddingPipeline, embeddingSemaphore>>
  /\ IF ~ok
       THEN UpsertFailed(d)
       ELSE /\ store' = store \cup Range(CurrentBatch(d, batchIndex[d]))
            /\ IF batchIndex[d] + BATCH_SIZE < nChunks[d]
                 THEN /\ batchIndex' = [batchIndex EXCEPT ![d] = @ + BATCH_SIZE]
                      /\ sent' = [sent EXCEPT ![d] =
                                    Append(@, CurrentBatch(d, batchIndex[d] + BATCH_SIZE))]
                      /\ UNCHANGED <<reqVars, dpc, tmp, nChunks, chunkIndex>>
                 ELSE DocSucceeds(d) /\ UNCHANGED sent

\* The requests of Init hold at most MaxFiles files, fewer than a task needs
\* to find every slot taken: WaitWake belongs to SpecSlots.
Next ==
  \/ \E r \in Requests, ok \in BOOLEAN : ListIndexes(r, ok)
  \/ \E r \in Requests, ok \in BOOLEAN : CreateIndexReturns(r, ok)
  \/ \E r \in Requests : SleepDone(r)
  \/ IndexReady
  \/ \E r \in Requests, ok \in BOOLEAN : ModelLoaded(r, ok)
  \/ \E d \in Docs, ok \in BOOLEAN, n \in ChunkCounts : ParseReturns(d, ok, n)
  \/ \E d \in Docs, ok \in BOOLEAN : LoadReturns(d, ok)
  \/ \E d \in Docs, ok \in BOOLEAN : EmbedReturns(d, ok)
  \/ \E d \in Docs : EmbedNothing(d)
  \/ \E d \in Docs, ok \in BOOLEAN : UpsertReturns(d, ok)

Spec == Init /\ [][Next]_vars

\* ---- the parallel controller in a process that has served uploads before:
\* ---- the index is ready and the shared model is loaded
InitSlots ==
  /\ pipeline = "parallel"
  /\ owner \in {[d \in Docs |-> 1], [d \in Docs |-> IF 2 * d <= MaxDocs THEN 1 ELSE 2]}
  /\ indexState = "ready"
  /\ globalEmbeddingPipeline = PreloadedInstance
  /\ user = [r \in Requests |-> IF r = 1 THEN "A" ELSE "B"]
  /\ embeddingSemaphore = 0
  \* a request without files has been answered before
  /\ rpc = [r \in Requests |-> IF DocsOf(r) = {} THEN "done" ELSE "list"]
  /\ resp = [r \in Requests |-> IF DocsOf(r) = {} THEN 200 ELSE 0]
  /\ QueryIdle
  /\ NoTimeout
  /\ building = NoBuilding
  /\ gate = NoGate
  /\ signing = NoSigning
  /\ results = [r \in Requests |-> <<>>]
  /\ dpc = [d \in Docs |-> "queued"]
  /\ nChunks = [d \in Docs |-> 0]
  /\ chunkIndex = [d \in Docs |-> 0]
  /\ embeddingVectors = [d \in Docs |-> 0]
  /\ batchIndex = [d \in Docs |-> 0]
  /\ sent = [d \in Docs |-> <<>>]
  /\ tmp = [d \in Docs |-> TRUE]
  /\ store = {}

NextSlots ==
  \/ \E r \in Requests, ok \in BOOLEAN : ListIndexes(r, ok)
  \/ \E d \in Docs, ok \in BOOLEAN, n \in ChunkCounts : ParseReturns(d, ok, n)
  \/ \E d \in Docs : WaitWake(d)
  \/ \E d \in Docs, ok \in BOOLEAN : EmbedReturns(d, ok)
  \/ \E d \in Docs : EmbedNothing(d)
  \/ \E d \in Docs, ok \in BOOLEAN : UpsertReturns(d, ok)

SpecSlots == InitSlots /\ [][NextSlots]_vars

\* ---- the upload of files with many vectors, in a process that has served
\* uploads before; every file is at the return of its last model call

\* vector counts around the batch boundaries
VectorCounts ==
  {0, 1, BATCH_SIZE - 1, BATCH_SIZE, BATCH_SIZE + 1, 2 * BATCH_SIZE, MaxVectors}

UploadDocs == {1, 2}

InitUpload ==
  /\ pipeline \in Pipelines
  /\ owner \in {[d \in Docs |-> IF d \in UploadDocs THEN d ELSE 0]}
              \cup IF pipeline = "parallel"
                     THEN {[d \in Docs |-> IF d \in UploadDocs THEN 1 ELSE 0]}
                     ELSE {}
  /\ indexState = "ready"
  /\ globalEmbeddingPipeline = PreloadedInstance
  /\ user = [r \in Requests |-> IF r = 1 THEN "A" ELSE "B"]
  /\ rpc = [r \in Requests |-> IF DocsOf(r) = {} THEN "done" ELSE "files"]
  /\ resp = [r \in Requests |-> IF DocsOf(r) = {} THEN 200 ELSE 0]
  /\ QueryIdle
  /\ NoTimeout
  /\ building = NoBuilding
  /\ gate = NoGate
  /\ signing = NoSigning
  /\ results = [r \in Requests |-> <<>>]
  /\ nChunks \in {f \in [Docs -> VectorCounts] :
                    /\ f[2] \in {0, MaxVectors}
                    /\ pipeline = "isolating" => \A d \in UploadDocs : f[d] > 0
                    /\ \A d \in Docs \ UploadDocs : f[d] = 0}
  /\ dpc = [d \in Docs |->
              IF d \notin UploadDocs THEN "queued"
              ELSE IF pipeline # "parallel" /\ nChunks[d] = 0 THEN "load"
              ELSE "embed"]
  /\ embeddingSemaphore = IF pipeline = "parallel" THEN Cardinality(UploadDocs) ELSE 0
  /\ chunkIndex = [d \in Docs |-> IF nChunks[d] > 0 THEN nChunks[d] - 1 ELSE 0]
  /\ embeddingVectors = chunkIndex
  /\ batchIndex = [d \in Docs |-> 0]
  /\ sent = [d \in Docs |-> <<>>]
  /\ tmp = [d \in Docs |-> d \in UploadDocs]
  /\ store = {}

NextUpload ==
  \/ \E d \in Docs, ok \in BOOLEAN : LoadReturns(d, ok)
  \/ \E d \in Docs, ok \in BOOLEAN : EmbedReturns(d, ok)
  \/ \E d \in Docs : EmbedNothing(d)
  \/ \E d \in Docs, ok \in BOOLEAN : UpsertReturns(d, ok)

SpecUpload == InitUpload /\ [][NextUpload]_vars

\* ---- the embedding loop of files with several chunks, in a process that
\* has served uploads before; every file is about to embed its first chunk

InitEmbed ==
  /\ pipeline \in Pipelines
  /\ owner \in {[d \in Docs |-> IF d \in UploadDocs THEN d ELSE 0]}
              \cup IF pipeline = "parallel"
                     THEN {[d \in Docs |-> IF d \in UploadDocs THEN 1 ELSE 0]}
                     ELSE {}
  /\ indexState = "ready"
  /\ globalEmbeddingPipeline = PreloadedInstance
  /\ user = [r \in Requests |-> IF r = 1 THEN "A" ELSE "B"]
  /\ rpc = [r \in Requests |-> IF DocsOf(r) = {} THEN "done" ELSE "files"]
  /\ resp = [r \in Requests |-> IF DocsOf(r) = {} THEN 200 ELSE 0]
  /\ QueryIdle
  /\ NoTimeout
  /\ building = NoBuilding
  /\ gate = NoGate
  /\ signing = NoSigning
  /\ results = [r \in Requests |-> <<>>]
  /\ nChunks \in {f \in [Docs -> 0..MaxEmbedChunks] :
                    /\ pipeline = "isolating" => \A d \in UploadDocs : f[d] > 0
                    /\ \A d \in Docs \ UploadDocs : f[d] = 0}
  /\ dpc = [d \in Docs |->
              IF d \notin UploadDocs THEN "queued"
              ELSE IF pipeline # "parallel" THEN "load"
              ELSE "embed"]
  /\ embeddingSemaphore = IF pipeline = "parallel" THEN Cardinality(UploadDocs) ELSE 0
  /\ chunkIndex = [d \in Docs |-> 0]
  /\ embeddingVectors = [d \in Docs |-> 0]
  /\ batchIndex = [d \in Docs |-> 0]
  /\ sent = [d \in Docs |-> <<>>]
  /\ tmp = [d \in Docs |-> d \in UploadDocs]
  /\ store = {}

SpecEmbed == InitEmbed /\ [][NextUpload]_vars

\* ---- retrieval: sendPrompt (searchSimilarChunks, answerWithGPT4O) and
\* search (semanticSearch), against an index that holds records of two tenants

Handlers == {"sendPrompt", "search"}

\* the records an index can hold: chunk i of a file of tenant A when i is odd,
\* of a file of tenant B when i is even
StoredRecords ==
  {[id |-> <<2 - (i % 2), i>>, userId |-> IF i % 2 = 1 THEN "A" ELSE "B",
    index |-> QueryIndexName] :
     i \in 1..MaxStored}

\* the sequences of k distinct elements of S
RECURSIVE Arrangements(_, _)
Arrangements(S, k) ==
  IF k = 0 \/ S = {} THEN {<<>>}
  ELSE UNION {{<<x>> \o a : a \in Arrangements(S \ {x}, k - 1)} : x \in S}

\* faulty variant of the tenant test: every record passes
SameTenantAlways(rec, userId) == TRUE

\* match.metadata?.userId === userId, and the store's filter { userId: userId }
SameTenant(rec, userId) == rec.userId = userId

\* pineconeIndex.query: the topK best records for some query vector, in rank
\* order; any ranking is possible
Matches(candidates, topK) == Arrangements(candidates, Min(topK, Cardinality(candidates)))

\* pineconeClient.Index(PINECONE_INDEX_NAME): the records of the index queried
SearchedIndex == {rec \in store : rec.index = QueryIndexName}

\* what the handler asks the store for
QueryMatches ==
  IF query.handler = "sendPrompt"
    THEN Matches(SearchedIndex, query.maxResults * 2)
    ELSE Matches({rec \in SearchedIndex : SameTenant(rec, query.userId)}, query.maxResults)

\* the filter and the slice of searchSimilarChunks; semanticSearch maps the
\* matches one to one
SimilarChunks(matches) ==
  IF query.handler = "sendPrompt"
    THEN LET OfUser(m) == SameTenant(m, query.userId)
             filteredMatches == SelectSeq(matches, OfUser)
         IN  SubSeq(filteredMatches, 1, Min(query.maxResults, Len(filteredMatches)))
    ELSE matches

\* faulty variant of the test for an empty result: never taken
NoChunksIgnored(similarChunks) == FALSE

\* similarChunks.length === 0
NoChunks(similarChunks) == Len(similarChunks) = 0

\* sources of the response: the chunkId of each chunk, or nothing
Sources(similarChunks) ==
  IF query.includeMetadata
    THEN [k \in 1..Len(similarChunks) |-> similarChunks[k].id]
    ELSE <<>>

\* the fields of the JSON body the handler sends with status st
ResponseBody(st) ==
  IF query.handler = "sendPrompt"
    THEN CASE st = 400 -> {"success", "error", "message"}
           [] st = 500 -> {"success", "error", "message", "metadata"}
           [] OTHER    -> {"success", "query", "answer", "sources", "metadata"}
    ELSE CASE st = 400 -> {"success", "error"}
           [] st = 500 -> {"success", "error", "message"}
           [] OTHER    -> {"success", "query", "results", "resultCount"}

Answer(st, ok, ans, src) ==
  [query EXCEPT !.pc = "done", !.status = st, !.success = ok,
                !.answer = ans, !.sources = src, !.body = ResponseBody(st)]

uploadVars == <<pipeline, owner, user, indexState, globalEmbeddingPipeline,
                embeddingSemaphore, rpc, resp, results, dpc,
                nChunks, chunkIndex, embeddingVectors, batchIndex, sent, tmp, store,
                timedOut, building, gate, signing>>

\* req.body.query: absent, "", only white space, or a question
QueryTexts == {"missing", "empty", "blank", "words"}

\* !query
Falsy(text) == text \in {"missing", "empty"}

\* query.trim()
Trim(text) == IF text = "blank" THEN "empty" ELSE text

\* the validation of the handler: sendPrompt tests !query || query.trim() === '',
\* search tests !query
QueryRejected ==
  IF query.handler = "sendPrompt"
    THEN Falsy(query.text) \/ Trim(query.text) = "empty"
    ELSE Falsy(query.text)

\* the handler runs up to its first await: the request is answered 400 or the
\* embedding of the query is started
QueryReceived ==
  /\ query.pc = "received"
  /\ query' = IF QueryRejected THEN Answer(400, FALSE, "none", <<>>)
              ELSE [query EXCEPT !.pc = "embed"]
  /\ UNCHANGED <<uploadVars, chunking>>

\* the embedding of the query returns (or the model fails)
QueryEmbedded(ok) ==
  /\ query.pc = "embed"
  /\ query' = IF ok THEN [query EXCEPT !.pc = "search"]
              ELSE Answer(500, FALSE, "none", <<>>)
  /\ UNCHANGED <<uploadVars, chunking>>

\* the records the store ranks behind the matches it returned
Rests(matches) ==
  LET candidates ==
        IF query.handler = "sendPrompt" THEN SearchedIndex
        ELSE {rec \in SearchedIndex : SameTenant(rec, query.userId)}
      left == candidates \ Range(matches)
  IN  Arrangements(left, Cardinality(left))

\* the similarity scores along a ranking of n records: best first
Scores(n) ==
  {f \in [1..n -> 1..MaxScore] : \A k \in 1..(n - 1) : f[k] >= f[k + 1]}

\* faulty variant of the context: only the best chunk goes into the prompt
AnswerContextFirstOnly(topChunks) ==
  [k \in 1..Min(1, Len(topChunks)) |-> [number |-> k, fullText |-> topChunks[k].id]]

\* context of answerWithGPT4O: "Context <index + 1>: <chunk.fullText>" for
\* each chunk, in the order of topChunks; a text is named by the id of its record
AnswerContext(topChunks) ==
  [k \in 1..Len(topChunks) |-> [number |-> k, fullText |-> topChunks[k].id]]

\* pineconeIndex.query returns (or throws); rest and scores are the part of
\* the store's ranking that the handler does not see
SearchReturns(ok, matches, rest, scores) ==
  /\ query.pc = "search"
  /\ UNCHANGED <<uploadVars, chunking>>
  /\ IF ~ok
       THEN query' = Answer(500, FALSE, "none", <<>>)
       ELSE LET similarChunks == SimilarChunks(matches)
                found == [query EXCEPT !.searched = TRUE, !.matches = matches,
                                       !.rest = rest, !.scores = scores,
                                       !.chunks = similarChunks]
            IN  IF query.handler = "search"
                  THEN query' = [found EXCEPT !.pc = "done", !.status = 200,
                                   !.success = TRUE,
                                   !.body = ResponseBody(200),
                                   !.sources = [k \in 1..Len(similarChunks) |->
                                                   similarChunks[k].id]]
                  ELSE IF NoChunks(similarChunks)
                         THEN query' = [found EXCEPT !.pc = "done", !.status = 200,
                                          !.success = TRUE, !.answer = "fallback",
                                          !.body = ResponseBody(200),
                                          !.sources = <<>>]
                         ELSE query' = [found EXCEPT !.pc = "generate",
                                          !.context = similarChunks,
                                          !.prompt = AnswerContext(similarChunks),
                                          !.gptCalls = @ + 1]

\* match.score of a chunk of the result
Similarity(chunk) ==
  LET j == CHOOSE i \in 1..Len(query.matches) : query.matches[i] = chunk
  IN  query.scores[j]

\* faulty variant of the metadata: the similarity of the last chunk is reported
MetadataOfLast(similarChunks) ==
  [chunksFound |-> Len(similarChunks),
   maxSimilarity |-> IF similarChunks = <<>> THEN 0
                     ELSE Similarity(similarChunks[Len(similarChunks)])]

\* metadata of the response: chunksFound: similarChunks.length,
\* maxSimilarity: similarChunks[0]?.similarity || 0
Metadata(similarChunks) ==
  [chunksFound |-> Len(similarChunks),
   maxSimilarity |-> IF similarChunks = <<>> THEN 0
                     ELSE Similarity(similarChunks[1])]

\* openai.chat.completions.create returns (or throws)
GenerationReturns(ok) ==
  /\ query.pc = "generate"
  /\ query' = IF ok THEN [Answer(200, TRUE, "generated", Sources(query.chunks))
                            EXCEPT !.metadata = Metadata(query.chunks)]
              ELSE Answer(500, FALSE, "none", <<>>)
  /\ UNCHANGED <<uploadVars, chunking>>

InitQuery ==
  /\ pipeline \in Pipelines
  /\ owner = [d \in Docs |-> 0]
  /\ indexState = "ready"
  /\ globalEmbeddingPipeline = 0
  /\ user = [r \in Requests |-> IF r = 1 THEN "A" ELSE "B"]
  /\ embeddingSemaphore = 0
  /\ rpc = [r \in Requests |-> "done"]
  /\ resp = [r \in Requests |-> 200]
  /\ results = [r \in Requests |-> <<>>]
  /\ dpc = [d \in Docs |-> "queued"]
  /\ nChunks = [d \in Docs |-> 0]
  /\ chunkIndex = [d \in Docs |-> 0]
  /\ embeddingVectors = [d \in Docs |-> 0]
  /\ batchIndex = [d \in Docs |-> 0]
  /\ sent = [d \in Docs |-> <<>>]
  /\ tmp = [d \in Docs |-> FALSE]
  /\ store \in SUBSET StoredRecords
  /\ chunking = NoChunking
  /\ NoTimeout
  /\ building = NoBuilding
  /\ gate = NoGate
  /\ signing = NoSigning
  /\ \E h \in Handlers, u \in Tenants, n \in 1..MaxResults, im \in BOOLEAN,
        t \in QueryTexts :
       /\ h = "search" => im
       /\ query = [NoQuery EXCEPT !.pc = "received", !.handler = h, !.text = t,
                                  !.userId = u, !.maxResults = n,
                                  !.includeMetadata = im]

NextQuery ==
  \/ QueryReceived
  \/ \E ok \in BOOLEAN : QueryEmbedded(ok)
  \/ /\ query.pc = "search"
     /\ \E ok \in BOOLEAN, matches \in QueryMatches :
          \E rest \in Rests(matches) :
             \E scores \in Scores(Len(matches) + Len(rest)) :
                SearchReturns(ok, matches, rest, scores)
  \/ \E ok \in BOOLEAN : GenerationReturns(ok)

SpecQuery == InitQuery /\ [][NextQuery]_vars

\* ---- the chunkers: createTextChunks (fixed size) and createSemanticChunks

Characters == {"a", " ", "."}

\* the texts up to n characters
RECURSIVE Texts(_)
Texts(n) ==
  IF n = 0 THEN {<<>>}
  ELSE Texts(n - 1) \cup {Append(t, c) : t \in {u \in Texts(n - 1) : Len(u) = n - 1},
                                         c \in Characters}

\* faulty variant of the slice: one character short
ChunkTextShort(text, position, chunkSize) == Slice(text, position, position + chunkSize - 1)

\* textContent.slice(position, position + chunkSize)
ChunkTextOf(text, position, chunkSize) == Slice(text, position, position + chunkSize)

\* faulty variant of the loop test: one turn too many
MoreTextInclusive(text, position) == position <= Len(text)

\* position < textContent.length
MoreText(text, position) == position < Len(text)

\* the while loop of createTextChunks, from position on
RECURSIVE TextChunksFrom(_, _, _)
TextChunksFrom(text, chunkSize, position) ==
  IF MoreText(text, position)
    THEN LET chunkText == ChunkTextOf(text, position, chunkSize)
         IN  <<[text |-> chunkText, startPosition |-> position,
                charCount |-> Len(chunkText)]>>
             \o TextChunksFrom(text, chunkSize, position + chunkSize)
    ELSE <<>>

createTextChunks(text, chunkSize) == TextChunksFrom(text, chunkSize, 0)

\* what the text splitter hands back, piece by piece: the word count, the
\* number of punctuation marks [.,!?;] and the length of the piece; pieces
\* around the two thresholds of the filter
Pieces ==
  {[wordCount |-> w, marks |-> m, charCount |-> 20] :
     w \in {MinWords - 1, MinWords}, m \in {0, 6, 7}}

\* the documents the splitter can return for a text: none for the empty one
RECURSIVE Documents(_)
Documents(n) ==
  IF n = 0 THEN {<<>>}
  ELSE Documents(n - 1) \cup {Append(ds, p) : ds \in {e \in Documents(n - 1) : Len(e) = n - 1},
                                             p \in Pieces}

\* Math.round(punctuationRatio * 1000), in thousandths
PunctuationPerMille(piece) ==
  (2 * 1000 * piece.marks + piece.charCount) \div (2 * piece.charCount)

\* the test of the filter of createSemanticChunks: the chunk is removed
PoorQuality(piece) ==
  piece.wordCount < MinWords \/ PunctuationPerMille(piece) > MaxPunctuationPerMille

\* documents.map((doc, index) => ...) and the filter
createSemanticChunks(documents) ==
  LET textChunks == [k \in 1..Len(documents) |->
                       [wordCount |-> documents[k].wordCount,
                        marks |-> documents[k].marks,
                        charCount |-> documents[k].charCount,
                        chunkIndex |-> k - 1]]
      Kept(chunk) == ~PoorQuality(chunk)
  IN  SelectSeq(textChunks, Kept)

\* the chunker returns
ChunkerReturns ==
  /\ chunking.pc = "called"
  /\ chunking' = [chunking EXCEPT
        !.pc = "done",
        !.textChunks = IF chunking.chunker = "fixed"
                         THEN createTextChunks(chunking.text, chunking.chunkSize)
                         ELSE createSemanticChunks(chunking.documents)]
  /\ UNCHANGED <<uploadVars, query>>

\* the catch of createSemanticChunks: the splitter failed on the text
ChunkerThrows ==
  /\ chunking.pc = "called"
  /\ chunking.chunker = "semantic" /\ chunking.documents # <<>>
  /\ chunking' = [chunking EXCEPT !.pc = "done", !.threw = TRUE]
  /\ UNCHANGED <<uploadVars, query>>

\* faulty variant of the loop that builds the records: last chunk first
ChunkVectorsReversed(textChunks) ==
  [k \in 1..Len(textChunks) |->
     LET currentChunk == textChunks[Len(textChunks) + 1 - k]
     IN  [position |-> IF chunking.chunker = "fixed" THEN currentChunk.startPosition
                       ELSE currentChunk.chunkIndex,
          charCount |-> currentChunk.charCount]]

\* the first loop of uploadChunksToPinecone: vectorsToUpload, one record for
\* each chunk; position is the startPosition or the chunkIndex of its metadata
ChunkVectors(textChunks) ==
  [k \in 1..Len(textChunks) |->
     LET currentChunk == textChunks[k]
     IN  [position |-> IF chunking.chunker = "fixed" THEN currentChunk.startPosition
                       ELSE currentChunk.chunkIndex,
          charCount |-> currentChunk.charCount]]

\* the chunks go on to uploadChunksToPinecone, which builds the records; the
\* controller of createSemanticChunks throws before that when no chunk is left
BuildVectors ==
  /\ chunking.pc = "done" /\ ~chunking.threw
  /\ chunking.chunker = "semantic" => chunking.textChunks # <<>>
  /\ chunking' = [chunking EXCEPT !.pc = "built",
                                  !.vectors = ChunkVectors(chunking.textChunks)]
  /\ UNCHANGED <<uploadVars, query>>

InitChunk ==
  /\ pipeline \in Pipelines
  /\ owner = [d \in Docs |-> 0]
  /\ indexState = "ready"
  /\ globalEmbeddingPipeline = 0
  /\ user = [r \in Requests |-> IF r = 1 THEN "A" ELSE "B"]
  /\ embeddingSemaphore = 0
  /\ rpc = [r \in Requests |-> "done"]
  /\ resp = [r \in Requests |-> 200]
  /\ results = [r \in Requests |-> <<>>]
  /\ dpc = [d \in Docs |-> "queued"]
  /\ nChunks = [d \in Docs |-> 0]
  /\ chunkIndex = [d \in Docs |-> 0]
  /\ embeddingVectors = [d \in Docs |-> 0]
  /\ batchIndex = [d \in Docs |-> 0]
  /\ sent = [d \in Docs |-> <<>>]
  /\ tmp = [d \in Docs |-> FALSE]
  /\ store = {}
  /\ query = NoQuery
  /\ NoTimeout
  /\ building = NoBuilding
  /\ gate = NoGate
  /\ signing = NoSigning
  /\ \/ \E t \in Texts(MaxTextLen), c \in 1..MaxChunkSize :
          chunking = [NoChunking EXCEPT !.pc = "called", !.chunker = "fixed",
                                        !.text = t, !.chunkSize = c]
     \/ \E ds \in Documents(MaxPieces) :
          chunking = [NoChunking EXCEPT !.pc = "called", !.chunker = "semantic",
                                        !.documents = ds]

NextChunk == ChunkerReturns \/ ChunkerThrows \/ BuildVectors

SpecChunk == InitChunk /\ [][NextChunk]_vars

\* ---- an upload followed by a retrieval: two requests of two tenants with
\* one file each, every file at the return of its last model call; the
\* retrieval request arrives when both uploads have been answered

MaxTripChunks == 2  \* chunks of a file that is uploaded and then searched for

InitRoundTrip ==
  /\ pipeline \in Pipelines
  /\ owner = [d \in Docs |-> IF d \in UploadDocs THEN d ELSE 0]
  /\ indexState = "ready"
  /\ globalEmbeddingPipeline = PreloadedInstance
  /\ user = [r \in Requests |-> IF r = 1 THEN "A" ELSE "B"]
  /\ rpc = [r \in Requests |-> IF DocsOf(r) = {} THEN "done" ELSE "files"]
  /\ resp = [r \in Requests |-> IF DocsOf(r) = {} THEN 200 ELSE 0]
  /\ QueryIdle
  /\ NoTimeout
  /\ building = NoBuilding
  /\ gate = NoGate
  /\ signing = NoSigning
  /\ results = [r \in Requests |-> <<>>]
  /\ nChunks \in {f \in [Docs -> 0..MaxTripChunks] :
                    \A d \in Docs : (f[d] > 0) <=> (d \in UploadDocs)}
  /\ dpc = [d \in Docs |-> IF d \in UploadDocs THEN "embed" ELSE "queued"]
  /\ embeddingSemaphore = IF pipeline = "parallel" THEN Cardinality(UploadDocs) ELSE 0
  /\ chunkIndex = [d \in Docs |-> IF nChunks[d] > 0 THEN nChunks[d] - 1 ELSE 0]
  /\ embeddingVectors = chunkIndex
  /\ batchIndex = [d \in Docs |-> 0]
  /\ sent = [d \in Docs |-> <<>>]
  /\ tmp = [d \in Docs |-> d \in UploadDocs]
  /\ store = {}

\* a retrieval request arrives after the uploads
QueryArrives(h, u, n) ==
  /\ query.pc = "idle"
  /\ \A r \in Requests : resp[r] # 0
  /\ query' = [NoQuery EXCEPT !.pc = "received", !.handler = h, !.text = "words",
                              !.userId = u, !.maxResults = n]
  /\ UNCHANGED <<uploadVars, chunking>>

NextRoundTrip ==
  \/ \E d \in Docs, ok \in BOOLEAN : EmbedReturns(d, ok)
  \/ \E d \in Docs, ok \in BOOLEAN : UpsertReturns(d, ok)
  \/ \E h \in Handlers, u \in Tenants, n \in 1..MaxResults : QueryArrives(h, u, n)
  \/ NextQuery

SpecRoundTrip == InitRoundTrip /\ [][NextRoundTrip]_vars

\* ---- the caller of an upload stops waiting (a timeout of the client or of
\* the socket) while files are in the embedding loop or in the upload

\* The controllers register no handler for it (no 'close' or 'aborted'
\* listener, no AbortController, no timer around a task): the event changes
\* nothing in the process.
CallerTimeout(d) ==
  /\ Active(d)
  /\ ~timedOut[d]
  /\ timedOut' = [timedOut EXCEPT ![d] = TRUE]
  /\ UNCHANGED <<pipeline, owner, user, query, chunking, building, gate, signing,
                 indexState,
                 globalEmbeddingPipeline, embeddingSemaphore, reqVars, docVars, store>>

NextCancel ==
  \/ \E d \in Docs, ok \in BOOLEAN : LoadReturns(d, ok)
  \/ \E d \in Docs, ok \in BOOLEAN : EmbedReturns(d, ok)
  \/ \E d \in Docs : EmbedNothing(d)
  \/ \E d \in Docs, ok \in BOOLEAN : UpsertReturns(d, ok)
  \/ \E d \in Docs : CallerTimeout(d)

SpecCancel == InitEmbed /\ [][NextCancel]_vars

\* ---- progress of the parallel controller: the event loop runs a callback
\* whenever one is pending (a call that has returned, a timer that has fired)
\* one request with one file more than there are slots
InitProgress ==
  /\ pipeline = "parallel"
  /\ owner = [d \in Docs |-> IF d <= MAX_CONCURRENT_EMBEDDINGS + 1 THEN 1 ELSE 0]
  /\ indexState = "ready"
  /\ globalEmbeddingPipeline = PreloadedInstance
  /\ user = [r \in Requests |-> IF r = 1 THEN "A" ELSE "B"]
  /\ embeddingSemaphore = 0
  /\ rpc = [r \in Requests |-> IF DocsOf(r) = {} THEN "done" ELSE "list"]
  /\ resp = [r \in Requests |-> IF DocsOf(r) = {} THEN 200 ELSE 0]
  /\ QueryIdle
  /\ NoTimeout
  /\ building = NoBuilding
  /\ gate = NoGate
  /\ signing = NoSigning
  /\ results = [r \in Requests |-> <<>>]
  /\ dpc = [d \in Docs |-> "queued"]
  /\ nChunks = [d \in Docs |-> 0]
  /\ chunkIndex = [d \in Docs |-> 0]
  /\ embeddingVectors = [d \in Docs |-> 0]
  /\ batchIndex = [d \in Docs |-> 0]
  /\ sent = [d \in Docs |-> <<>>]
  /\ tmp = [d \in Docs |-> owner[d] # 0]
  /\ store = {}

SpecProgress == InitProgress /\ [][NextSlots]_vars /\ WF_vars(NextSlots)

\* ---- one record of uploadChunksToPinecone (unnamed/part_004): the metadata
\* of the chunk is sanitized and merged into the metadata of the record

\* a JSON value by its type; val names the value
Value(type, val) == [type |-> type, val |-> val]

\* values a metadata field of a chunk can hold
MetadataValues ==
  {Value("string", "B"), Value("number", "7"), Value("null", "null"),
   Value("object", "nested"), Value("strings", "tags"), Value("function", "fn")}

\* keys of the metadata of a chunk: two that the record uses itself, and the
\* one LangChain sets
MetadataKeys == {"userId", "chunkIndex", "loc"}

\* the metadata objects of a chunk
MetadataObjects ==
  UNION {[keys -> MetadataValues] : keys \in SUBSET MetadataKeys}

\* `${key}_json`
JsonKey(key) ==
  CASE key = "userId" -> "userId_json"
    [] key = "chunkIndex" -> "chunkIndex_json"
    [] key = "loc" -> "loc_json"

\* the branch of sanitizeMetadata that a value takes
Sanitized(value) ==
  CASE value.type \in {"string", "number", "boolean", "strings"} -> value
    [] value.type = "object" -> Value("string", "JSON")
    [] OTHER -> Value("string", "String")

sanitizeMetadata(metadata) ==
  LET kept == {key \in DOMAIN metadata : metadata[key].type # "null"}
      plain == {key \in kept : metadata[key].type # "object"}
      keys == plain \cup {JsonKey(key) : key \in kept \ plain}
  IN  [k \in keys |->
         IF k \in plain THEN Sanitized(metadata[k])
         ELSE Sanitized(metadata[CHOOSE key \in kept \ plain : JsonKey(key) = k])]

\* { ...a, ...b }: the fields of b win
Spread(a, b) ==
  [k \in DOMAIN a \cup DOMAIN b |-> IF k \in DOMAIN b THEN b[k] ELSE a[k]]

\* the chunk the record is built from, and the file it belongs to
CurrentChunk ==
  [id |-> Value("string", "c1"), text |-> Value("string", "t1"),
   wordCount |-> Value("number", "5"), charCount |-> Value("number", "20"),
   chunkIndex |-> Value("number", "0")]

Filename == Value("string", "f.pdf")

\* the fields of the record that are written before the spread
OwnFields(userId) ==
  [userId |-> Value("string", userId), filename |-> Filename,
   text |-> CurrentChunk.text, wordCount |-> CurrentChunk.wordCount,
   charCount |-> CurrentChunk.charCount, chunkIndex |-> CurrentChunk.chunkIndex,
   chunkId |-> CurrentChunk.id]

\* metadata: { userId, filename, text, ..., ...sanitizedLangChainMetadata }
RecordMetadata(userId, langChainMetadata) ==
  Spread(OwnFields(userId), sanitizeMetadata(langChainMetadata))

\* vectorsToUpload.push({...}) for the chunk
BuildRecord ==
  /\ building.pc = "called"
  /\ building' = [building EXCEPT
        !.pc = "built",
        !.metadata = RecordMetadata(building.userId, building.langChainMetadata)]
  /\ UNCHANGED <<pipeline, owner, user, indexState, globalEmbeddingPipeline,
                 embeddingSemaphore, reqVars, docVars, store, timedOut, query,
                 chunking, gate, signing>>

InitRecord ==
  /\ pipeline = "isolating"
  /\ owner = [d \in Docs |-> 0]
  /\ indexState = "ready"
  /\ globalEmbeddingPipeline = 0
  /\ user = [r \in Requests |-> IF r = 1 THEN "A" ELSE "B"]
  /\ embeddingSemaphore = 0
  /\ rpc = [r \in Requests |-> "done"]
  /\ resp = [r \in Requests |-> 200]
  /\ results = [r \in Requests |-> <<>>]
  /\ dpc = [d \in Docs |-> "queued"]
  /\ nChunks = [d \in Docs |-> 0]
  /\ chunkIndex = [d \in Docs |-> 0]
  /\ embeddingVectors = [d \in Docs |-> 0]
  /\ batchIndex = [d \in Docs |-> 0]
  /\ sent = [d \in Docs |-> <<>>]
  /\ tmp = [d \in Docs |-> FALSE]
  /\ store = {}
  /\ QueryIdle
  /\ timedOut = [d \in Docs |-> FALSE]
  /\ \E u \in Tenants, m \in MetadataObjects :
       building = [NoBuilding EXCEPT !.pc = "called", !.userId = u,
                                     !.langChainMetadata = m]
  /\ gate = NoGate
  /\ signing = NoSigning

NextRecord == BuildRecord

SpecRecord == InitRecord /\ [][NextRecord]_vars

\* ======================= the query route =======================
\* router.post("/", upload.array("files"), protect, sendPrompt): multer stores
\* the files of the request under uploads/, then protect decides whether
\* sendPrompt runs. The retrieval that sendPrompt performs is followed step by
\* step under SpecQuery; here it is one step with its four possible answers.

\* req.headers.authorization.split(" "); <<>> when the header is absent
Authorizations ==
  {<<>>, <<"Basic", "good">>, <<"Bearer">>, <<"Bearer", "">>,
   <<"Bearer", "good">>, <<"Bearer", "expired">>, <<"BearerX", "good">>}

\* req.headers.authorization && req.headers.authorization.startsWith("Bearer")
StartsWithBearer(h) == Len(h) >= 1 /\ h[1] \in {"Bearer", "BearerX"}

\* token = req.headers.authorization.split(" ")[1]
Token(h) == IF Len(h) >= 2 THEN h[2] ELSE "undefined"

\* the value of !token is false
Truthy(t) == t \notin {"undefined", ""}

\* jwt.verify(token, secret) returns instead of throwing
Verifies(t) == t = "good"

\* User.findById(decoded.id): a document, null, or a rejected promise
Lookups == {"found", "null", "throws"}

\* protect lets every looked-up user through
UserFoundAlways(l) == TRUE

\* the value of !req.user is false
UserFound(l) == l = "found"

\* req.body.query is missing or blank, the retrieval answers, or it throws
GateBodies == {"empty", "question", "throws"}

\* return res.status(401).json({ success: false, message })
Reject(g, msg) ==
  [g EXCEPT !.pc = "answered", !.sent = Append(@, 401), !.status = 401,
            !.message = msg]

\* multer's disk storage writes one more file of the request under uploads/
MulterStores ==
  /\ gate.pc = "multer"
  /\ gate.staged < gate.files
  /\ gate' = [gate EXCEPT !.staged = @ + 1]
  /\ UNCHANGED <<pipeline, owner, user, indexState, globalEmbeddingPipeline,
                 embeddingSemaphore, reqVars, docVars, store, timedOut, query,
                 chunking, building, signing>>

\* multer calls next(): protect runs up to its await, or to its answer
Protect ==
  /\ gate.pc = "multer"
  /\ gate.staged = gate.files
  /\ LET h == gate.authorization
     IN  gate' =
           IF StartsWithBearer(h)
           THEN IF Verifies(Token(h))
                THEN [gate EXCEPT !.pc = "findById"]
                ELSE Reject(gate, "Not authorized, token failed.")
           ELSE Reject(gate, "Not authorized, no token.")
  /\ UNCHANGED <<pipeline, owner, user, indexState, globalEmbeddingPipeline,
                 embeddingSemaphore, reqVars, docVars, store, timedOut, query,
                 chunking, building, signing>>

\* User.findById settles: the catch block, the answer for a missing user, or
\* next() followed by the check of token at the end of protect
FindByIdSettles ==
  /\ gate.pc = "findById"
  /\ gate' =
       IF gate.lookup = "throws"
       THEN Reject(gate, "Not authorized, token failed.")
       ELSE IF ~UserFound(gate.lookup)
       THEN Reject(gate, "User not found for this token.")
       ELSE LET called == [gate EXCEPT !.pc = "sendPrompt", !.nextCalls = @ + 1,
                                       !.user = gate.lookup = "found"]
            IN  IF Truthy(Token(gate.authorization))
                THEN called
                ELSE [called EXCEPT !.sent = Append(@, 401), !.status = 401,
                                    !.message = "Not authorized, no token."]
  /\ UNCHANGED <<pipeline, owner, user, indexState, globalEmbeddingPipeline,
                 embeddingSemaphore, reqVars, docVars, store, timedOut, query,
                 chunking, building, signing>>

\* the status sendPrompt answers with
PromptStatus(body, hasUser) ==
  IF body = "empty" THEN 400
  ELSE IF ~hasUser THEN 401
  ELSE IF body = "throws" THEN 500
  ELSE 200

\* sendPrompt runs and answers
SendPrompt ==
  /\ gate.pc = "sendPrompt"
  /\ gate' = [gate EXCEPT !.pc = "answered", !.ran = TRUE,
                          !.status = PromptStatus(gate.body, gate.user)]
  /\ UNCHANGED <<pipeline, owner, user, indexState, globalEmbeddingPipeline,
                 embeddingSemaphore, reqVars, docVars, store, timedOut, query,
                 chunking, building, signing>>

InitGate ==
  /\ pipeline = "parallel"
  /\ owner = [d \in Docs |-> 0]
  /\ indexState = "ready"
  /\ globalEmbeddingPipeline = 0
  /\ user = [r \in Requests |-> IF r = 1 THEN "A" ELSE "B"]
  /\ embeddingSemaphore = 0
  /\ rpc = [r \in Requests |-> "done"]
  /\ resp = [r \in Requests |-> 200]
  /\ results = [r \in Requests |-> <<>>]
  /\ dpc = [d \in Docs |-> "queued"]
  /\ nChunks = [d \in Docs |-> 0]
  /\ chunkIndex = [d \in Docs |-> 0]
  /\ embeddingVectors = [d \in Docs |-> 0]
  /\ batchIndex = [d \in Docs |-> 0]
  /\ sent = [d \in Docs |-> <<>>]
  /\ tmp = [d \in Docs |-> FALSE]
  /\ store = {}
  /\ QueryIdle
  /\ NoTimeout
  /\ building = NoBuilding
  /\ signing = NoSigning
  /\ \E h \in Authorizations, l \in Lookups, n \in 0..MaxStaged, b \in GateBodies :
       gate = [NoGate EXCEPT !.pc = "multer", !.authorization = h, !.lookup = l,
                             !.files = n, !.body = b]

NextGate == MulterStores \/ Protect \/ FindByIdSettles \/ SendPrompt

SpecGate == InitGate /\ [][NextGate]_vars

\* ======================= sign-in =======================
\* signUser, between its awaits. The accounts are fixed: one user, whose email
\* is "known" and whose password is "right". Two calls run side by side so that
\* their responses can be compared.

Attempts == 1..MaxAttempts

\* req.body.email: missing or empty, the email of the account, another email
Emails == {"", "known", "unknown"}

\* req.body.password as express.json() delivers it: missing or empty, the
\* password of the account, another string, a JSON number
Passwords == {"", "right", "wrong", "number"}

\* typeof password === "string"
IsString(password) == password # "number"

\* User.findOne({ email }) returns a document
Exists(email) == email = "known"

\* bcrypt.compare(enteredPassword, this.password) for a string
isMatch(email, password) == Exists(email) /\ password = "right"

\* res.status(statusCode).json(...) without a token
Refuse(s, statusCode, body) ==
  [s EXCEPT !.pc = "answered", !.status = statusCode, !.body = body]

\* sendTokenResponse(user, statusCode, res)
sendTokenResponse(s, statusCode) ==
  [s EXCEPT !.pc = "answered", !.status = statusCode, !.body = "token",
            !.token = TRUE, !.cookie = TRUE]

\* signUser up to await User.findOne
SignUser(a) ==
  /\ signing[a].pc = "called"
  /\ signing' = [signing EXCEPT ![a] =
        IF signing[a].email = "" \/ signing[a].password = ""
        THEN Refuse(@, 400, "Please provide an email and password.")
        ELSE [@ EXCEPT !.pc = "findOne"]]
  /\ UNCHANGED <<pipeline, owner, user, indexState, globalEmbeddingPipeline,
                 embeddingSemaphore, reqVars, docVars, store, timedOut, query,
                 chunking, building, gate>>

\* User.findOne settles: a rejection goes through asyncHandler to the error
\* handler of the application, which answers 500 with the error's message
FindOneSettles(a) ==
  /\ signing[a].pc = "findOne"
  /\ signing' = [signing EXCEPT ![a] =
        IF signing[a].dbFails
        THEN Refuse(@, 500, "database error")
        ELSE IF ~Exists(signing[a].email)
        THEN Refuse(@, 401, "Invalid credentials.")
        ELSE [@ EXCEPT !.pc = "comparePassword"]]
  /\ UNCHANGED <<pipeline, owner, user, indexState, globalEmbeddingPipeline,
                 embeddingSemaphore, reqVars, docVars, store, timedOut, query,
                 chunking, building, gate>>

\* user.comparePassword settles: bcrypt.compare rejects when the entered
\* password is not a string, and the error handler answers 500
ComparePasswordSettles(a) ==
  /\ signing[a].pc = "comparePassword"
  /\ signing' = [signing EXCEPT ![a] =
        IF ~IsString(signing[a].password)
        THEN Refuse(@, 500, "Illegal arguments: number, string")
        ELSE IF ~isMatch(signing[a].email, signing[a].password)
        THEN Refuse(@, 401, "Invalid credentials.")
        ELSE sendTokenResponse(@, 200)]
  /\ UNCHANGED <<pipeline, owner, user, indexState, globalEmbeddingPipeline,
                 embeddingSemaphore, reqVars, docVars, store, timedOut, query,
                 chunking, building, gate>>

InitSignIn ==
  /\ pipeline = "parallel"
  /\ owner = [d \in Docs |-> 0]
  /\ indexState = "ready"
  /\ globalEmbeddingPipeline = 0
  /\ user = [r \in Requests |-> IF r = 1 THEN "A" ELSE "B"]
  /\ embeddingSemaphore = 0
  /\ rpc = [r \in Requests |-> "done"]
  /\ resp = [r \in Requests |-> 200]
  /\ results = [r \in Requests |-> <<>>]
  /\ dpc = [d \in Docs |-> "queued"]
  /\ nChunks = [d \in Docs |-> 0]
  /\ chunkIndex = [d \in Docs |-> 0]
  /\ embeddingVectors = [d \in Docs |-> 0]
  /\ batchIndex = [d \in Docs |-> 0]
  /\ sent = [d \in Docs |-> <<>>]
  /\ tmp = [d \in Docs |-> FALSE]
  /\ store = {}
  /\ QueryIdle
  /\ NoTimeout
  /\ building = NoBuilding
  /\ gate = NoGate
  /\ signing \in [Attempts ->
        {[NoSigning[1] EXCEPT !.pc = "called", !.email = e, !.password = p,
                              !.dbFails = f] :
           e \in Emails, p \in Passwords, f \in BOOLEAN}]

NextSignIn ==
  \/ \E a \in Attempts : SignUser(a)
  \/ \E a \in Attempts : FindOneSettles(a)
  \/ \E a \in Attempts : ComparePasswordSettles(a)

SpecSignIn == InitSignIn /\ [][NextSignIn]_vars

\* ======================= properties =======================

\* C2: failure isolation in ingest. Once a request has been answered and none
\* of its files is still being processed, every file of the request has run to
\* its own completion (none was left unprocessed because another one failed)
\* and every file that completed successfully is reported as a success in a
\* 200 response.
ReportedSuccess(d) ==
  /\ resp[owner[d]] = 200
  /\ \E k \in 1..Len(results[owner[d]]) :
        results[owner[d]][k].doc = d /\ results[owner[d]][k].status = "success"

FailureIsolation ==
  \A r \in Requests :
    (rpc[r] = "done" /\ \A d \in DocsOf(r) : ~Active(d)) =>
       \A d \in DocsOf(r) :
          /\ (\E e \in DocsOf(r) : Failed(e)) => Finished(d)
          /\ dpc[d] = "ok" => ReportedSuccess(d)

\* C3: the slot counter stays within 0..MAX_CONCURRENT_EMBEDDINGS and at most
\* MAX_CONCURRENT_EMBEDDINGS model calls are in flight, over all files of all
\* requests.
EmbeddingCallsInFlight ==
  Cardinality({d \in Docs : dpc[d] = "embed" /\ chunkIndex[d] < nChunks[d]})

SlotCapHolds ==
  /\ embeddingSemaphore >= 0
  /\ embeddingSemaphore <= MAX_CONCURRENT_EMBEDDINGS
  /\ EmbeddingCallsInFlight <= MAX_CONCURRENT_EMBEDDINGS

\* every slot is taken by a model call in flight while another file waits
SlotCapReached ==
  /\ EmbeddingCallsInFlight = MAX_CONCURRENT_EMBEDDINGS
  /\ \E d \in Docs : dpc[d] = "wait"

\* C4: every slot acquired is released exactly once: the counter equals the
\* number of files inside the try block of generateEmbeddingsForChunks, on
\* the success path and on the failure path; when every task has finished the
\* counter is 0.
SlotHolders == {d \in Docs : dpc[d] = "embed"}

SlotsReleased ==
  /\ embeddingSemaphore = Cardinality(SlotHolders)
  /\ (\A d \in Docs : owner[d] # 0 => Finished(d)) => embeddingSemaphore = 0

\* all tasks have finished, one after its embedding call threw, one after
\* embedding all its chunks
AllFinishedAfterEmbedFailure ==
  /\ \A d \in Docs : Finished(d)
  /\ \E d \in Docs : dpc[d] = "failedEmbed"
  /\ \E d \in Docs : dpc[d] = "ok" /\ nChunks[d] > 0

\* C5: the shared embedding model is loaded at most once: no two loads
\* pipeline(...) of initializeGlobalEmbeddingModel are in flight together, and
\* an instance, once set, is never replaced by another one.
ModelLoadsInFlight == Cardinality({r \in Requests : rpc[r] = "load"})

ModelLoadedOnce ==
  /\ ModelLoadsInFlight <= 1
  /\ \A r \in Requests : rpc[r] = "load" => globalEmbeddingPipeline = 0

\* C6: while the index is absent, concurrent ensurePineconeIndexExists calls
\* issue createIndex at most once: no two createIndex calls are in flight
\* together and none is in flight for an index that exists.
CreateCallsInFlight == Cardinality({r \in Requests : rpc[r] = "create"})

CreateIndexOnce ==
  /\ CreateCallsInFlight <= 1
  /\ \A r \in Requests : rpc[r] = "create" => indexState = "absent"

\* C7: when ensurePineconeIndexExists has returned normally the index is
\* queryable: a request past it (loading the model, processing files) finds
\* the index ready, and no upsert is in flight for an index that is still
\* being created.
EnsureIndexReady ==
  /\ \A r \in Requests : rpc[r] \in {"load", "files"} => indexState = "ready"
  /\ \A d \in Docs : dpc[d] = "upsert" => indexState = "ready"

\* C8: upserts are sent in batches of at most BATCH_SIZE records, one after
\* another (every batch but the last one sent has been stored before the
\* next went out), the batches sent so far are a prefix of the file's vectors
\* in chunk order, and when all succeeded they hold each vector exactly once,
\* in ceil(n / BATCH_SIZE) calls (none for n = 0).
RECURSIVE Flatten(_)
Flatten(ss) == IF ss = <<>> THEN <<>> ELSE Head(ss) \o Flatten(Tail(ss))

TotalBatches(n) == (n + BATCH_SIZE - 1) \div BATCH_SIZE

BatchingHolds ==
  \A d \in Docs :
    /\ \A k \in 1..Len(sent[d]) : Len(sent[d][k]) \in 1..BATCH_SIZE
    /\ \A k \in 1..(Len(sent[d]) - 1) : Range(sent[d][k]) \subseteq store
    /\ dpc[d] = "upsert" =>
         /\ Len(Flatten(sent[d])) <= nChunks[d]
         /\ Flatten(sent[d]) = SubSeq(VectorsToUpload(d), 1, Len(Flatten(sent[d])))
         /\ Range(sent[d][Len(sent[d])]) \cap store = {}
    /\ (dpc[d] = "ok" /\ owner[d] # 0) =>
         /\ Flatten(sent[d]) = VectorsToUpload(d)
         /\ Len(sent[d]) = TotalBatches(nChunks[d])
         /\ Range(VectorsToUpload(d)) \subseteq store

\* a file of MaxVectors vectors went up in three batches, the last one short,
\* under the sequential controller
ThreeBatchesUploaded ==
  /\ pipeline = "sequential"
  /\ \E d \in Docs :
       /\ dpc[d] = "ok"
       /\ nChunks[d] > 2 * BATCH_SIZE
       /\ Len(sent[d]) = 3
       /\ Len(sent[d][3]) < BATCH_SIZE

\* C9: when the upsert of a batch of a file fails, no later batch of that file
\* is sent (a batch goes out only in the step that stored the one before it,
\* and a failed file sends nothing more); the upserts of the other files in flight at that moment stay in
\* flight with their batch, and nothing that was stored is removed.
UpsertFailureScope ==
  [][ /\ \A d \in Docs : dpc[d] = "failedUpsert" =>
             dpc'[d] = "failedUpsert" /\ sent'[d] = sent[d]
      /\ \A d \in Docs : (dpc[d] = "upsert" /\ sent'[d] # sent[d]) =>
             Range(sent[d][Len(sent[d])]) \subseteq store'
      /\ \A d \in Docs : (dpc[d] = "upsert" /\ dpc'[d] = "failedUpsert") =>
             /\ sent'[d] = sent[d]
             /\ \A e \in Docs \ {d} : dpc[e] = "upsert" =>
                    dpc'[e] = "upsert" /\ sent'[e] = sent[e]
      /\ store \subseteq store' ]_vars

\* a file failed at its first batch; its sibling of the same request, whose
\* temp file the catch removed meanwhile, still stored all its batches
SiblingStoredAfterFailure ==
  \E d, e \in Docs :
    /\ d # e /\ owner[d] = owner[e] /\ owner[d] # 0
    /\ dpc[d] = "failedUpsert" /\ Len(sent[d]) = 1
    /\ dpc[e] = "failedUnlink" /\ Len(sent[e]) = 3
    /\ Range(VectorsToUpload(e)) \subseteq store

\* C1: tenant isolation. Whatever the index holds and however the store ranks
\* it, every chunk a search scoped to a tenant returns carries that tenant's
\* id, and so does every chunk in the generation context and every record a
\* source of the response refers to.
TenantIsolation ==
  /\ \A k \in 1..Len(query.chunks) : query.chunks[k].userId = query.userId
  /\ \A k \in 1..Len(query.context) : query.context[k].userId = query.userId
  /\ \A k \in 1..Len(query.sources) : \A rec \in store :
        rec.id = query.sources[k] => rec.userId = query.userId

\* sendPrompt answered with sources although the store ranked a record of the
\* other tenant first
ForeignRecordFilteredOut ==
  /\ query.handler = "sendPrompt" /\ query.pc = "done" /\ query.status = 200
  /\ Len(query.sources) > 0
  /\ Len(query.matches) > 0 /\ query.matches[1].userId # query.userId

\* C10: when the tenant-scoped search of sendPrompt yields no chunk, the
\* request is answered 200 with success true, no sources and the fallback
\* answer, and the generation call is never made.
NoResultsFallback ==
  (query.handler = "sendPrompt" /\ query.searched /\ query.chunks = <<>>) =>
     /\ query.pc = "done"
     /\ query.status = 200 /\ query.success
     /\ query.sources = <<>>
     /\ query.answer = "fallback"
     /\ query.gptCalls = 0

\* the index holds records, all of another tenant, and the search came back
\* with matches; none passed the filter
OnlyForeignMatches ==
  /\ query.handler = "sendPrompt" /\ query.searched
  /\ query.chunks = <<>> /\ Len(query.matches) > 0
  /\ query.status = 200

\* C11: the search scoped to a tenant returns the min(topK, number of the
\* tenant's records) best-ranked records of that tenant, in rank order.
Ranking == query.matches \o query.rest

RankedOfTenant ==
  LET OfUser(rec) == rec.userId = query.userId
  IN  SelectSeq(Ranking, OfUser)

NearestOfTenant ==
  query.searched =>
     query.chunks = SubSeq(RankedOfTenant, 1, Min(query.maxResults, Len(RankedOfTenant)))

\* C12: the results are in descending score and, at equal score, the record
\* uploaded last comes first.
ScoreOf(rec) ==
  LET k == CHOOSE j \in 1..Len(Ranking) : Ranking[j] = rec
  IN  query.scores[k]

\* the records of the index were uploaded in the order of their chunk numbers
UploadedAt(rec) == rec.id[2]

OrderedByScoreThenRecency ==
  query.searched =>
    \A k \in 1..(Len(query.chunks) - 1) :
       \/ ScoreOf(query.chunks[k]) > ScoreOf(query.chunks[k + 1])
       \/ /\ ScoreOf(query.chunks[k]) = ScoreOf(query.chunks[k + 1])
          /\ UploadedAt(query.chunks[k]) > UploadedAt(query.chunks[k + 1])

\* C13: once a request has been answered none of its temp files exists any
\* more, whether it was answered 200 or 500 and whichever step failed.
StagingReleased ==
  \A r \in Requests : resp[r] # 0 => \A d \in DocsOf(r) : ~tmp[d]

\* a request was answered 500 because one of its files failed, and the temp
\* file of a file that was not at fault (still waiting or under way) is gone
StagingReleasedAfterSiblingFailure ==
  \E d, e \in Docs :
    /\ d # e /\ owner[d] = owner[e] /\ owner[d] # 0
    /\ resp[owner[d]] = 500
    /\ Failed(d)
    /\ dpc[e] \in {"queued", "parse", "embed", "upsert"}
    /\ ~tmp[e]

\* C14: createTextChunks returns ceil(L / C) chunks for a text of length L and
\* a chunk size C, every chunk but the last has length C, and the chunk texts
\* put together in order give the text back.
RECURSIVE Concatenation(_)
Concatenation(chunks) ==
  IF chunks = <<>> THEN <<>> ELSE Head(chunks).text \o Concatenation(Tail(chunks))

FixedChunkingExact ==
  (chunking.chunker = "fixed" /\ chunking.pc = "done") =>
     LET L == Len(chunking.text)
         C == chunking.chunkSize
         chunks == chunking.textChunks
     IN  /\ Len(chunks) = (L + C - 1) \div C
         /\ \A k \in 1..(Len(chunks) - 1) : Len(chunks[k].text) = C
         /\ Concatenation(chunks) = chunking.text

\* a text that is cut into several chunks, the last one shorter
TextCutWithShortTail ==
  /\ chunking.chunker = "fixed" /\ chunking.pc = "done"
  /\ Len(chunking.textChunks) >= 2
  /\ Len(chunking.textChunks[Len(chunking.textChunks)].text) < chunking.chunkSize

\* C15: the quality filter removes the chunks below MinWords words or above
\* the punctuation ratio, but never all of them: a document that was cut into
\* at least one piece keeps at least one chunk.
QualityFilterKeepsLast ==
  (chunking.chunker = "semantic" /\ chunking.pc = "done" /\ ~chunking.threw) =>
     /\ \A k \in 1..Len(chunking.textChunks) :
           PoorQuality(chunking.textChunks[k]) => Len(chunking.textChunks) = 1
     /\ chunking.documents # <<>> => chunking.textChunks # <<>>

\* C16: for an empty text the chunker returns the empty sequence and raises
\* no error.
EmptyTextNoChunks ==
  (chunking.pc = "done" /\ chunking.text = <<>> /\ chunking.documents = <<>>) =>
     chunking.textChunks = <<>> /\ ~chunking.threw

\* createTextChunks has returned for the empty text
EmptyTextChunked ==
  /\ chunking.pc = "done" /\ chunking.chunker = "fixed"
  /\ chunking.text = <<>>
  /\ chunking.textChunks = <<>>

\* C17: a retrieval request whose query is missing, empty or only white space
\* is answered 400 with success false as soon as it is handled; no embedding,
\* search or generation call is made for it.
QueryValidatedFirst ==
  (query.text # "words" /\ query.pc \notin {"idle", "received"}) =>
     /\ query.pc = "done"
     /\ query.status = 400 /\ ~query.success
     /\ ~query.searched
     /\ query.gptCalls = 0

\* C18: a document whose cleaned text is empty (it yields no chunk) is
\* rejected before the pipeline: no model load, embedding or upsert is run
\* for it and it does not end as a success.
EmptyDocumentRejected ==
  \A d \in Docs :
    (owner[d] # 0 /\ nChunks[d] = 0) =>
       dpc[d] \notin {"load", "wait", "embed", "upsert", "ok"}

\* C19: when ensurePineconeIndexExists throws, the request is answered with a
\* failure and none of its files is parsed, chunked, embedded or upserted:
\* a request that leaves the index setup answered has all its files untouched,
\* and an untouched file of an answered request stays untouched.
IndexFailureFatal ==
  [][ \A r \in Requests :
        /\ (rpc[r] \in {"list", "create", "sleep"} /\ rpc'[r] = "done"
            /\ DocsOf(r) # {}) =>
              /\ resp'[r] = 500
              /\ \A d \in DocsOf(r) : dpc'[d] = "queued" /\ sent'[d] = <<>>
        /\ rpc[r] = "done" =>
              \A d \in DocsOf(r) : dpc[d] = "queued" => dpc'[d] = "queued" ]_vars

\* the per-file controller answered 500 while the index is absent; no file of
\* the request was touched
IndexSetupFailed ==
  /\ pipeline = "isolating"
  /\ indexState = "absent"
  /\ \E r \in Requests :
       /\ DocsOf(r) # {} /\ rpc[r] = "done" /\ resp[r] = 500
       /\ \A d \in DocsOf(r) : dpc[d] = "queued" /\ ~tmp[d]

\* C20: a failed model call is not made up for: the file fails at once and
\* stays failed with nothing sent, and a file that is still embedding or has
\* gone on to the upload got a vector from every call made for it so far (no
\* chunk was embedded after a call of the file had failed).
NoRetryOnEmbedFailure ==
  /\ [](\A d \in Docs :
          /\ dpc[d] = "embed" => embeddingVectors[d] = chunkIndex[d]
          /\ dpc[d] \in {"upsert", "ok"} => embeddingVectors[d] = nChunks[d]
          /\ dpc[d] = "failedEmbed" => sent[d] = <<>>)
  /\ [][\A d \in Docs : dpc[d] = "failedEmbed" =>
            dpc'[d] = "failedEmbed" /\ embeddingVectors'[d] = embeddingVectors[d]]_vars

\* under the Promise.all controller a file of several chunks failed in the
\* embedding loop while its sibling embedded all its chunks and stored them
EmbedFailedSiblingStored ==
  /\ pipeline = "parallel"
  /\ \E d, e \in Docs :
       /\ owner[d] = owner[e] /\ owner[d] # 0
       /\ dpc[d] = "failedEmbed"
       /\ dpc[e] = "failedUnlink" /\ nChunks[e] >= 2 /\ embeddingVectors[e] = nChunks[e]

\* C21: a partial upload is reported. When a file's upload failed after at
\* least one of its batches was stored and the request has been answered, the
\* response names the file as failed and tells how many of its vectors were
\* uploaded.
PartialUploadReported ==
  \A d \in Docs :
    (dpc[d] = "failedUpsert" /\ Len(sent[d]) >= 2 /\ resp[owner[d]] # 0) =>
       \E k \in 1..Len(results[owner[d]]) :
          LET entry == results[owner[d]][k]
          IN  /\ entry.doc = d
              /\ entry.status = "error"
              /\ "vectorsUploaded" \in DOMAIN entry
              /\ entry.vectorsUploaded = (Len(sent[d]) - 1) * BATCH_SIZE

\* C22: inline reporting for each file. A request that got past the index
\* setup (one of its files was taken up) and has been answered was answered
\* 200 with one entry for each of its files, in the order of req.files, and
\* the entry of a file that failed has the status error.
InlineReporting ==
  \A r \in Requests :
    (resp[r] # 0 /\ \E d \in DocsOf(r) : dpc[d] # "queued") =>
       /\ resp[r] = 200
       /\ Len(results[r]) = Cardinality(DocsOf(r))
       /\ \A k \in 1..Len(results[r]) :
             /\ results[r][k].doc = OrderedDocs(r)[k]
             /\ Failed(OrderedDocs(r)[k]) => results[r][k].status = "error"

\* C23: every response of a retrieval handler that is not a success carries
\* success false together with an error field and a message field.
StructuredFailureBodies ==
  (query.pc = "done" /\ query.status # 200) =>
     /\ ~query.success
     /\ {"success", "error", "message"} \subseteq query.body

\* C24: round trip from upload to retrieval. Every record of a file that was
\* uploaded successfully for a tenant is among the records that a later search
\* of that tenant ranks: it is in the index searched, under the tenant's id.
IngestedIsSearchable ==
  \A d \in Docs :
    (dpc[d] = "ok" /\ owner[d] # 0 /\ query.searched
     /\ query.userId = user[owner[d]]) =>
        Range(VectorsToUpload(d)) \subseteq Range(Ranking)

\* C25: the chunks of a file come out of the chunker with strictly increasing
\* startPosition (fixed size) or chunkIndex (after the quality filter too),
\* and the records are built one for each chunk in that same order.
ChunkOrderMonotonic ==
  /\ (chunking.pc \in {"done", "built"} /\ ~chunking.threw) =>
        \A k \in 1..(Len(chunking.textChunks) - 1) :
           IF chunking.chunker = "fixed"
             THEN chunking.textChunks[k].startPosition
                    < chunking.textChunks[k + 1].startPosition
             ELSE chunking.textChunks[k].chunkIndex
                    < chunking.textChunks[k + 1].chunkIndex
  /\ chunking.pc = "built" =>
        /\ Len(chunking.vectors) = Len(chunking.textChunks)
        /\ \A k \in 1..(Len(chunking.vectors) - 1) :
              chunking.vectors[k].position < chunking.vectors[k + 1].position

\* the filter removed the piece in the middle: the records of the two chunks
\* that are left were built, with a gap between their indexes
RecordsBuiltAfterFiltering ==
  /\ chunking.chunker = "semantic" /\ chunking.pc = "built"
  /\ Len(chunking.documents) = 3
  /\ Len(chunking.vectors) = 2
  /\ chunking.vectors[1].position = 0 /\ chunking.vectors[2].position = 2

\* C26: scope of a cancellation. When the caller's timeout fires for a file,
\* the task of that file is aborted (it is no longer under way), and the
\* tasks of the other files are where they were.
CancellationScope ==
  /\ [](\A d \in Docs : timedOut[d] => ~Active(d))
  /\ [][\A d \in Docs : (timedOut'[d] /\ ~timedOut[d]) =>
           \A e \in Docs \ {d} : dpc'[e] = dpc[e] /\ sent'[e] = sent[e]]_vars

\* C27: assembly of the context. sendPrompt calls the generation once at most,
\* only after the search has returned, and exactly once when the search gave
\* a chunk; the prompt then holds the full text of every chunk returned,
\* numbered from 1 in the order of the result, and no more than maxResults
\* texts.
ContextAssembled ==
  /\ query.gptCalls <= 1
  /\ query.gptCalls = 1 =>
        query.searched /\ query.pc \in {"generate", "done"}
  /\ (query.handler = "sendPrompt" /\ query.searched /\ query.chunks # <<>>) =>
        /\ query.gptCalls = 1
        /\ Len(query.prompt) = Len(query.chunks)
        /\ Len(query.prompt) <= query.maxResults
        /\ \A k \in 1..Len(query.chunks) :
              /\ query.prompt[k].number = k
              /\ query.prompt[k].fullText = query.chunks[k].id

\* the generation answered a prompt made of two chunks
AnsweredFromTwoChunks ==
  /\ query.handler = "sendPrompt" /\ query.pc = "done"
  /\ query.answer = "generated" /\ query.gptCalls = 1
  /\ Len(query.chunks) = 2 /\ Len(query.prompt) = 2

\* C28: consistency of the retrieval response. In a successful response of
\* sendPrompt with at least one chunk, chunksFound is the number of chunks
\* that went to the generation, maxSimilarity is the highest similarity among
\* them, and the sources, when asked for, are those chunks in the same order.
ResponseConsistent ==
  (query.handler = "sendPrompt" /\ query.pc = "done" /\ query.status = 200
   /\ query.chunks # <<>>) =>
     /\ query.metadata.chunksFound = Len(query.context)
     /\ \A k \in 1..Len(query.context) :
           ScoreOf(query.context[k]) <= query.metadata.maxSimilarity
     /\ \E k \in 1..Len(query.context) :
           ScoreOf(query.context[k]) = query.metadata.maxSimilarity
     /\ query.includeMetadata =>
           query.sources = [k \in 1..Len(query.context) |-> query.context[k].id]

\* a response with sources for two chunks of different similarity
TwoSourcesOfDifferentSimilarity ==
  /\ query.handler = "sendPrompt" /\ query.pc = "done" /\ query.status = 200
  /\ query.includeMetadata
  /\ Len(query.sources) = 2 /\ Len(query.context) = 2
  /\ ScoreOf(query.context[1]) > ScoreOf(query.context[2])

\* C29: order of the stages of a file. Nothing of a file is sent or stored
\* while it is loading the model or embedding, nor after its embedding failed;
\* a file that has sent a batch had a vector for every one of its chunks.
StagesInOrder ==
  \A d \in Docs :
    /\ dpc[d] \in {"load", "embed", "failedLoad", "failedEmbed"} =>
          /\ sent[d] = <<>>
          /\ \A rec \in store : rec.id[1] # d
    /\ sent[d] # <<>> =>
          /\ dpc[d] \in {"upsert", "ok", "failedUpsert", "failedUnlink"}
          /\ dpc[d] # "failedUpsert" => embeddingVectors[d] = nChunks[d]

\* a file failed in the embedding loop and none of its records is in the
\* index, which holds the three records of the other file
NothingStoredAfterEmbedFailure ==
  \E d, e \in Docs :
    /\ dpc[d] = "failedEmbed"
    /\ \A rec \in store : rec.id[1] # d
    /\ dpc[e] = "ok" /\ nChunks[e] = 3
    /\ Range(VectorsToUpload(e)) \subseteq store

\* C30: no work after the answer. Once a request has been answered, no file
\* of it makes a step: no model call or upsert of it returns into further
\* work, nothing more of it is sent or stored, and its temp file is not
\* touched.
NoWorkAfterAnswer ==
  [][\A d \in Docs :
       (owner[d] # 0 /\ resp[owner[d]] # 0) =>
          /\ dpc'[d] = dpc[d]
          /\ chunkIndex'[d] = chunkIndex[d]
          /\ sent'[d] = sent[d]
          /\ tmp'[d] = tmp[d]
          /\ \A rec \in store' \ store : rec.id[1] # d]_vars

\* C31: progress of ingestion. As long as the calls in flight return, every
\* task that waits for an embedding slot gets one, every file whose task was
\* started ends (as a success or as a failure; no task is started when the
\* request failed before its files) and every request is answered.
IngestionProgress ==
  /\ \A d \in Docs : (dpc[d] = "wait") ~> (dpc[d] = "embed")
  /\ <>[](\A d \in Docs :
             owner[d] # 0 =>
                \/ Finished(d)
                \/ dpc[d] = "queued" /\ resp[owner[d]] = 500)
  /\ <>[](\A r \in Requests : resp[r] # 0)

\* a task waits for a slot while one has been given back
WaiterWithFreeSlot ==
  \E d, e \in Docs :
    /\ dpc[d] = "wait" /\ SlotFree
    /\ dpc[e] = "failedEmbed"

\* C32: the shared model is initialised before use. Under the controller with
\* the shared model, whenever a model call of the embedding loop is in flight
\* globalEmbeddingPipeline holds a loaded model, and so it does as soon as a
\* file of a request has been taken up, whatever became of the model loads of
\* other requests.
ModelReadyAtCall ==
  pipeline = "parallel" =>
    \A d \in Docs :
      (owner[d] # 0 /\ dpc[d] # "queued") => globalEmbeddingPipeline # 0

\* a model call is in flight for a request whose own load succeeded, while the
\* load of the other request, started at the same time, failed
CallWhileOtherLoadFailed ==
  /\ pipeline = "parallel"
  /\ \E d \in Docs, r \in Requests :
       /\ dpc[d] = "embed" /\ chunkIndex[d] < nChunks[d]
       /\ owner[d] # r /\ DocsOf(r) # {}
       /\ resp[r] = 500 /\ \A e \in DocsOf(r) : dpc[e] = "queued"
       /\ globalEmbeddingPipeline = owner[d]

\* C33: the counts of a success match the index. For an entry with status
\* success, chunksCreated and vectorsUploaded are both the number of records
\* of the file that are in the index, and these records are the ones built
\* from the chunks of the file, under the id of the tenant that uploaded it.
RecordsOf(d) == {rec \in store : rec.id[1] = d}

SuccessCountsMatchStore ==
  \A r \in Requests :
    \A k \in 1..Len(results[r]) :
      LET entry == results[r][k]
      IN  entry.status = "success" =>
            /\ entry.chunksCreated = entry.vectorsUploaded
            /\ entry.vectorsUploaded = Cardinality(RecordsOf(entry.doc))
            /\ RecordsOf(entry.doc) = Range(VectorsToUpload(entry.doc))
            /\ \A rec \in RecordsOf(entry.doc) : rec.userId = user[r]

\* a file of MaxVectors chunks is reported as a success in a 200 response
LargeFileReported ==
  \E r \in Requests :
    /\ resp[r] = 200
    /\ \E k \in 1..Len(results[r]) :
         /\ results[r][k].status = "success"
         /\ results[r][k].vectorsUploaded = MaxVectors

AuthenticationGate ==
  /\ gate.nextCalls + Len(gate.sent) <= 1
  /\ gate.pc \in {"sendPrompt", "answered"} => gate.nextCalls + Len(gate.sent) = 1
  /\ \A i \in 1..Len(gate.sent) : gate.sent[i] = 401
  /\ gate.nextCalls = 1 =>
        /\ gate.authorization \in {<<"Bearer", "good">>, <<"BearerX", "good">>}
        /\ gate.lookup = "found"
        /\ gate.user
  /\ gate.ran => gate.nextCalls = 1

\* a request with a good token of an existing user has reached sendPrompt and
\* has been answered by it
GateOpened ==
  /\ gate.pc = "answered"
  /\ gate.ran
  /\ gate.nextCalls = 1
  /\ gate.sent = <<>>
  /\ gate.status = 200

\* C36: staging on the query route. By the time a request to the query route
\* is answered, whether by sendPrompt or with a 401 by protect, every file that
\* the request wrote to the staging directory has been removed.
StagingCleared == gate.pc = "answered" => gate.staged = 0

\* C37: token issuance requires a verified password. signUser sends a token
\* response only when a user with the given email exists and comparePassword
\* returned true for the given password; on every other path it answers 400 or
\* 401 and issues neither a token nor a cookie.
TokenNeedsVerifiedPassword ==
  \A a \in Attempts :
     signing[a].pc = "answered" =>
        IF signing[a].token \/ signing[a].cookie
        THEN signing[a].email = "known" /\ signing[a].password = "right"
        ELSE signing[a].status \in {400, 401}

\* C38: sign-in does not reveal account existence. Of two failed sign-in
\* attempts with non-empty email and password whose lookups the database
\* answered, one with an unknown email and one with a known email and a wrong
\* password, both get the same status code and the same response body.
SignInUniform ==
  \A a, b \in Attempts :
     ( /\ signing[a].pc = "answered" /\ signing[b].pc = "answered"
       /\ signing[a].password # "" /\ signing[b].password # ""
       /\ ~signing[a].dbFails /\ ~signing[b].dbFails
       /\ signing[a].email = "unknown"
       /\ signing[b].email = "known" /\ signing[b].password # "right" )
     => /\ signing[a].status = signing[b].status
        /\ signing[a].body = signing[b].body

====
